---- MODULE Spec2Model ----
(***************************************************************************)
(* Model of ice_morphometry_csv_summary.py: test_disk_write_speed and      *)
(* reindex_and_analyze, the pipeline that discovers the per-frame CSV      *)
(* files, benchmarks the disk, plans the execution mode, reads and merges  *)
(* the files, and writes the raw-data and summary-statistics artifacts.    *)
(*                                                                         *)
(* A run of reindex_and_analyze is cut at the points where it touches the  *)
(* file system or can raise; pc names the position inside the function.    *)
(* The caller may run the function a second time on the same inputs.       *)
(***************************************************************************)
EXTENDS Integers, Sequences, FiniteSets, TLC

VARIABLES
    in_exists,       \* in_path.is_dir()
    out_exists,      \* out_path.is_dir()
    in_dir,          \* directory entries of the input folder: [name, table]
    selected_columns,
    time_interval,
    use_parallel,    \* the caller's opt-in of the current run
    out_files,       \* the output folder: file name -> content
    pc,              \* position inside reindex_and_analyze
    error,           \* the exception the run ended with
    error_msg,       \* the column names the exception's message lists
    csv_files,       \* line 125
    disk_speed,      \* line 133
    use_parallel_determined,   \* lines 136-152
    cpu_count,       \* what os.cpu_count() returned at line 163
    num_workers,     \* line 163
    all_data,        \* line 170
    parsed_by,       \* the process that ran pd.read_csv for each file read
    df_all,          \* line 182
    average_data,    \* lines 218 and 267
    grouped_stats,   \* lines 230-241
    plot_df,         \* the df argument plot_lines_with_options received
    cpu_load,        \* line 256
    created,         \* names of the files this run opened for writing
    rerun,           \* TRUE in the second run
    prev             \* what the first run left behind

vars == << in_exists, out_exists, in_dir, selected_columns, time_interval,
           use_parallel, out_files, pc, error, error_msg, csv_files,
           disk_speed, use_parallel_determined, cpu_count, num_workers,
           all_data, parsed_by, df_all, average_data, grouped_stats, plot_df,
           cpu_load, created, rerun, prev >>

----------------------------------------------------------------------------
(* Bounds of the model and constants of the program *)

MaxFiles == 2          \* at most this many matching files in the input folder
MaxInterval == 5       \* the positive frame interval tried
MaxSpeed == 60         \* the fastest disk tried, MB/s
MaxCpu == 16           \* the largest os.cpu_count() tried
MaxLoad == 50          \* the largest psutil.cpu_percent() tried

SpeedThreshold == 50   \* line 145
MinColumns == 2        \* line 150
MaxWorkers == 8        \* line 163
SecPerMin == 60        \* line 178

Prefix == "R2"                        \* in_path.name
Timestamp == "2025_01_01_00_00_00"    \* the caller-supplied timestamp
Pattern == "_morphometry_results.csv"
MainProcess == "MainProcess"

Min(a, b) == IF a <= b THEN a ELSE b
Abs(a) == IF a < 0 THEN 0 - a ELSE a

RECURSIVE GCD(_, _)
GCD(a, b) == IF b = 0 THEN a ELSE GCD(b, a % b)

----------------------------------------------------------------------------
(* Values *)

\* A cell of a table: <<>> is a missing value (NaN), <<v>> the number v.
NULL == << >>
Num(v) == << v >>

\* A statistic: NaN, the rational num/den, or the root of the rational num/den.
NaN == [kind |-> "nan", num |-> 0, den |-> 1]
Rat(n, d) ==
    LET g == GCD(Abs(n), Abs(d))
    IN  [kind |-> "rat", num |-> n \div g, den |-> d \div g]
Root(n, d) ==
    LET g == GCD(Abs(n), Abs(d))
    IN  [kind |-> "sqrt", num |-> n \div g, den |-> d \div g]

\* pandas column names
DerivedCols == {"Frame", "TimeSec", "TimeMin", "SourceFile"}
DataCols == {"Area", "Perimeter", "Circularity"}


----------------------------------------------------------------------------
(* The input folder *)

\* A file name is its stem, a string of digits, followed by its suffix.
Stems == { <<1>>, <<1, 0>>, <<2>> }
FileName(stem, suffix) == [stem |-> stem, suffix |-> suffix]

\* Path.glob("*_morphometry_results.csv")
Matches(name) == name.suffix = Pattern

\* The characters of a name that decide a comparison between two matching
\* names: the digits of the stem (ord("0") = 48), then the "_" (95) the
\* suffix starts with.
NameChars(name) ==
    [k \in 1..Len(name.stem) |-> 48 + name.stem[k]] \o << 95 >>

\* str.__lt__ on the names, which is what Path.__lt__ comes to inside one folder
LexLess(a, b) ==
    \E k \in 1..(Min(Len(a), Len(b)) + 1) :
        /\ \A j \in 1..(k - 1) : a[j] = b[j]
        /\ IF k <= Len(a) /\ k <= Len(b)
           THEN a[k] < b[k]
           ELSE k = Len(a) + 1 /\ k <= Len(b)

NameLess(m, n) == LexLess(NameChars(m), NameChars(n))

\* The tables the measurement files hold: a header and rows of cells.
Row3(a, p, c) == [col \in DataCols |->
                    IF col = "Area" THEN a ELSE IF col = "Perimeter" THEN p ELSE c]
Row1(a) == [col \in {"Area"} |-> a]
Table(columns, rows) == [columns |-> columns, rows |-> rows]

SampleTables ==
    { Table(DataCols, << >>),
      Table(DataCols, << Row3(Num(2), Num(1), NULL) >>),
      Table(DataCols, << Row3(Num(1), Num(2), Num(1)), Row3(Num(2), NULL, Num(1)) >>),
      Table({"Area"}, << Row1(Num(2)), Row1(Num(4)) >>) }

\* A file that does not match the pattern and is in every input folder
OtherFile == [name |-> FileName(<<0>>, "_notes.csv"), table |-> Table({"Area"}, << >>)]

Folders ==
    { {OtherFile} \cup { [name |-> FileName(st, Pattern), table |-> t[st]] : st \in DOMAIN t } :
        t \in UNION { [S -> SampleTables] :
                        S \in { T \in SUBSET Stems : Cardinality(T) <= MaxFiles } } }

Selections == { {"Area"}, {"Area", "Perimeter"}, DataCols }
Intervals == {0, MaxInterval}
Throughputs == {SpeedThreshold - 1, SpeedThreshold, MaxSpeed}
CpuCounts == {1, MaxWorkers, MaxCpu}
CpuLoads == {0, MaxLoad}

\* The orders in which a folder listing can hand out the files of a set
Listings(S) ==
    { l \in [1..Cardinality(S) -> S] : \A x \in S : \E k \in DOMAIN l : l[k] = x }

\* sorted(): insertion of each element before the first greater one
RECURSIVE InsertSorted(_, _)
InsertSorted(f, sorted) ==
    IF sorted = << >> THEN << f >>
    ELSE IF NameLess(f.name, Head(sorted).name) THEN << f >> \o sorted
    ELSE << Head(sorted) >> \o InsertSorted(f, Tail(sorted))

RECURSIVE SortFrom(_, _)
SortFrom(listing, sorted) ==
    IF listing = << >> THEN sorted
    ELSE SortFrom(Tail(listing), InsertSorted(Head(listing), sorted))

Unsorted(listing) == listing
SortedFiles(listing) == SortFrom(listing, << >>)

----------------------------------------------------------------------------
(* The output folder *)

ScratchName == "disk_test.tmp"
RawName == Prefix \o "_raw_data_" \o Timestamp \o ".csv"
SummaryName == Prefix \o "_summary_stats_" \o Timestamp \o ".csv"
ChartName == Prefix \o "_metrics_vs_frame.png"

Block(section, columns, rows) ==
    [section |-> section, columns |-> columns, rows |-> rows]

\* open(path, "a") in place of open(path, "w")
OpenForAppend(files, name) ==
    IF name \in DOMAIN files THEN files ELSE (name :> << >>) @@ files
\* open(path, "w"): the file exists and is empty
OpenForWrite(files, name) == (name :> << >>) @@ files
\* to_csv(csvfile) on an open file
WriteBlock(files, name, block) == (name :> (files[name] \o << block >>)) @@ files
\* os.remove
Remove(files, name) == [n \in (DOMAIN files) \ {name} |-> files[n]]


----------------------------------------------------------------------------
(* The data frames *)

NoFrame == [columns |-> {}, rows |-> << >>]

\* enumerate(..., start=1), line 172
FrameNum(i) == i
\* line 173
TimeSec(i, interval) == (i - 1) * interval
\* line 178
TimeMin(sec) == Rat(sec, SecPerMin)

\* Lines 175-179: the rows of one file with the four derived columns
ReadFrame(file, i, interval) ==
    [columns |-> file.table.columns \cup DerivedCols,
     rows |-> [k \in DOMAIN file.table.rows |->
                 [Frame |-> FrameNum(i),
                  TimeSec |-> TimeSec(i, interval),
                  TimeMin |-> TimeMin(TimeSec(i, interval)),
                  SourceFile |-> file.name,
                  cells |-> file.table.rows[k]]]]

RECURSIVE UnionColumns(_)
UnionColumns(frames) ==
    IF frames = << >> THEN {}
    ELSE Head(frames).columns \cup UnionColumns(Tail(frames))

\* A row of one frame widened to the columns of the merged frame
Reindex(row, columns) ==
    [row EXCEPT !.cells =
        [c \in columns \ DerivedCols |->
            IF c \in DOMAIN row.cells THEN row.cells[c] ELSE NULL]]

RECURSIVE ConcatRows(_, _)
ConcatRows(frames, columns) ==
    IF frames = << >> THEN << >>
    ELSE [k \in DOMAIN Head(frames).rows |-> Reindex(Head(frames).rows[k], columns)]
         \o ConcatRows(Tail(frames), columns)

\* pd.concat(all_data, ignore_index=True), line 182
Concat(frames) ==
    [columns |-> UnionColumns(frames),
     rows |-> ConcatRows(frames, UnionColumns(frames))]

\* pd.to_numeric on a parsed cell, line 200: read_csv has already parsed the
\* cells of the modelled tables as numbers, an empty cell as NaN
ToNumeric(cell) == IF cell = NULL THEN NULL ELSE Num(cell[1])

\* Lines 186-202: the numeric columns are converted in place
Coerce(df) ==
    [df EXCEPT !.rows =
        [k \in DOMAIN df.rows |->
            [df.rows[k] EXCEPT !.cells =
                [c \in DOMAIN df.rows[k].cells |-> ToNumeric(df.rows[k].cells[c])]]]]

\* Line 224
MissingCols(df, cols) == { c \in cols : c \notin df.columns }

----------------------------------------------------------------------------
(* groupby("Frame") and the statistics *)

RECURSIVE SortedInts(_)
SortedInts(S) ==
    IF S = {} THEN << >>
    ELSE LET m == CHOOSE x \in S : \A y \in S : x <= y
         IN  << m >> \o SortedInts(S \ {m})

\* The keys of the groups, in the order pandas emits them
FrameKeys(df) == SortedInts({ df.rows[k].Frame : k \in DOMAIN df.rows })

RECURSIVE ValuesFrom(_, _, _, _)
ValuesFrom(df, frame, col, k) ==
    IF k > Len(df.rows) THEN << >>
    ELSE (IF df.rows[k].Frame = frame /\ df.rows[k].cells[col] # NULL
          THEN << df.rows[k].cells[col][1] >> ELSE << >>)
         \o ValuesFrom(df, frame, col, k + 1)

\* The values of a column that one group aggregates: NaN is skipped
GroupValues(df, frame, col) == ValuesFrom(df, frame, col, 1)

\* The number of rows of a group
GroupSize(df, frame) == Cardinality({ k \in DOMAIN df.rows : df.rows[k].Frame = frame })

RECURSIVE Sum(_)
Sum(xs) == IF xs = << >> THEN 0 ELSE Head(xs) + Sum(Tail(xs))
RECURSIVE SumSq(_)
SumSq(xs) == IF xs = << >> THEN 0 ELSE Head(xs) * Head(xs) + SumSq(Tail(xs))

\* n times the sum of squared deviations from the mean
Deviation(xs) == Len(xs) * SumSq(xs) - Sum(xs) * Sum(xs)

Mean(xs) == IF Len(xs) = 0 THEN NaN ELSE Rat(Sum(xs), Len(xs))

\* std with ddof=0
StdPopulation(xs) ==
    IF Len(xs) = 0 THEN NaN ELSE Root(Deviation(xs), Len(xs) * Len(xs))
\* std with ddof=1
Std(xs) ==
    IF Len(xs) < 2 THEN NaN ELSE Root(Deviation(xs), Len(xs) * (Len(xs) - 1))
\* sem with ddof=1: std / sqrt(count)
Sem(xs) ==
    IF Len(xs) < 2 THEN NaN
    ELSE Root(Deviation(xs), Len(xs) * Len(xs) * (Len(xs) - 1))
Count(xs) == Rat(Len(xs), 1)

Stats == {"mean", "std", "sem", "count"}
Stat(stat, xs) ==
    IF stat = "mean" THEN Mean(xs)
    ELSE IF stat = "std" THEN Std(xs)
    ELSE IF stat = "sem" THEN Sem(xs)
    ELSE Count(xs)

\* A mean that counts a missing value as a zero
GroupMeanFillZero(df, cols) ==
    [columns |-> {"Frame"} \cup cols,
     rows |-> [k \in DOMAIN FrameKeys(df) |->
                 [Frame |-> FrameKeys(df)[k],
                  vals |-> [c \in cols |->
                              Rat(Sum(GroupValues(df, FrameKeys(df)[k], c)),
                                  GroupSize(df, FrameKeys(df)[k]))]]]]
\* df.groupby("Frame")[cols].mean().reset_index(), lines 218 and 267
GroupMean(df, cols) ==
    [columns |-> {"Frame"} \cup cols,
     rows |-> [k \in DOMAIN FrameKeys(df) |->
                 [Frame |-> FrameKeys(df)[k],
                  vals |-> [c \in cols |-> Mean(GroupValues(df, FrameKeys(df)[k], c))]]]]

\* df.groupby("Frame")[cols].agg(["mean", "std", "sem", "count"]), lines 230-234:
\* the columns are the pairs (column, statistic)
GroupAgg(df, cols) ==
    [columns |-> cols \X Stats,
     rows |-> [k \in DOMAIN FrameKeys(df) |->
                 [Frame |-> FrameKeys(df)[k],
                  vals |-> [p \in cols \X Stats |->
                              Stat(p[2], GroupValues(df, FrameKeys(df)[k], p[1]))]]]]

\* f"{col}_{stat}", line 239
FlatName(col, stat) == col \o "_" \o stat

\* Lines 238-241: the column pairs become names, Frame becomes a column
Flatten(agg) ==
    LET names == { FlatName(p[1], p[2]) : p \in agg.columns }
        pair(n) == CHOOSE p \in agg.columns : FlatName(p[1], p[2]) = n
    IN  [columns |-> {"Frame"} \cup names,
         rows |-> [k \in DOMAIN agg.rows |->
                     [Frame |-> agg.rows[k].Frame,
                      vals |-> [n \in names |-> agg.rows[k].vals[pair(n)]]]]]


----------------------------------------------------------------------------
(* The execution plan, lines 136-167 *)

\* The else branch turning parallel execution on by itself
PlanParallelForced(optin, speed, ncols) ==
    IF speed < SpeedThreshold THEN FALSE
    ELSE IF ncols <= MinColumns THEN FALSE
    ELSE TRUE
\* use_parallel_determined after lines 136-158
PlanParallel(optin, speed, ncols) ==
    IF speed < SpeedThreshold THEN FALSE
    ELSE IF ncols <= MinColumns THEN FALSE
    ELSE optin

\* Line 163
WorkerCount(cpu) == Min(cpu, MaxWorkers)

----------------------------------------------------------------------------
(* The state machine *)

NoRun == [ended |-> "none", raw |-> << >>, summary |-> << >>,
          use_parallel |-> FALSE, disk_speed |-> 0, parallel |-> FALSE]

\* The locals of reindex_and_analyze before its first statement
Locals ==
    /\ pc = "call"
    /\ error = "none"
    /\ error_msg = {}
    /\ csv_files = << >>
    /\ disk_speed = 0
    /\ use_parallel_determined = FALSE
    /\ cpu_count = 0
    /\ num_workers = 0
    /\ all_data = << >>
    /\ parsed_by = << >>
    /\ df_all = NoFrame
    /\ average_data = NoFrame
    /\ grouped_stats = NoFrame
    /\ plot_df = NoFrame
    /\ cpu_load = 0
    /\ created = {}

Init ==
    /\ in_exists \in BOOLEAN
    /\ out_exists \in BOOLEAN
    /\ in_dir \in Folders
    /\ selected_columns \in Selections
    /\ time_interval \in Intervals
    /\ use_parallel = FALSE
    /\ out_files = << >>
    /\ rerun = FALSE
    /\ prev = NoRun
    /\ Locals

Raise(kind, msg) ==
    /\ pc' = "failed"
    /\ error' = kind
    /\ error_msg' = msg

\* Lines 116-123: the call with the caller's opt-in, and the folder checks
Call ==
    /\ pc = "call"
    /\ \E optin \in BOOLEAN : use_parallel' = optin
    /\ IF ~in_exists \/ ~out_exists
       THEN Raise("FileNotFoundError", {})
       ELSE pc' = "discover" /\ UNCHANGED << error, error_msg >>
    /\ UNCHANGED << cpu_count, in_exists, out_exists, in_dir,
                    selected_columns, time_interval, out_files, csv_files,
                    disk_speed, use_parallel_determined, num_workers,
                    all_data, parsed_by, df_all, average_data, grouped_stats,
                    plot_df, cpu_load, created, rerun, prev >>

\* Lines 125-130
Discover ==
    /\ pc = "discover"
    /\ \E listing \in Listings({ f \in in_dir : Matches(f.name) }) :
          csv_files' = SortedFiles(listing)
    /\ IF csv_files' = << >>
       THEN Raise("FileNotFoundError", {})
       ELSE pc' = "benchmark" /\ UNCHANGED << error, error_msg >>
    /\ UNCHANGED << cpu_count, in_exists, out_exists, in_dir,
                    selected_columns, time_interval, use_parallel, out_files,
                    disk_speed, use_parallel_determined, num_workers,
                    all_data, parsed_by, df_all, average_data, grouped_stats,
                    plot_df, cpu_load, created, rerun, prev >>

\* Lines 19-21: test_disk_write_speed opens the scratch file
BenchOpen ==
    /\ pc = "benchmark"
    /\ out_files' = OpenForWrite(out_files, ScratchName)
    /\ created' = created \cup {ScratchName}
    /\ pc' = "bench_write"
    /\ UNCHANGED << cpu_count, in_exists, out_exists, in_dir,
                    selected_columns, time_interval, use_parallel, error,
                    error_msg, csv_files, disk_speed,
                    use_parallel_determined, num_workers, all_data,
                    parsed_by, df_all, average_data, grouped_stats, plot_df,
                    cpu_load, rerun, prev >>

\* Lines 22-23: f.write raises in the loop; the with statement closes the
\* file and the exception leaves test_disk_write_speed and the run
BenchWriteRaises ==
    /\ pc = "bench_write"
    /\ out_files' = WriteBlock(out_files, ScratchName, Block("payload", {}, << >>))
    /\ Raise("OSError", {})
    /\ UNCHANGED << cpu_count, in_exists, out_exists, in_dir,
                    selected_columns, time_interval, use_parallel, csv_files,
                    disk_speed, use_parallel_determined, num_workers,
                    all_data, parsed_by, df_all, average_data, grouped_stats,
                    plot_df, cpu_load, created, rerun, prev >>

\* Lines 22-26 and 133: the writes succeed, the file is removed and the
\* throughput returned
BenchReturn ==
    /\ pc = "bench_write"
    /\ out_files' = Remove(out_files, ScratchName)
    /\ \E speed \in Throughputs : disk_speed' = speed
    /\ pc' = "plan"
    /\ UNCHANGED << cpu_count, in_exists, out_exists, in_dir,
                    selected_columns, time_interval, use_parallel, error,
                    error_msg, csv_files, use_parallel_determined,
                    num_workers, all_data, parsed_by, df_all, average_data,
                    grouped_stats, plot_df, cpu_load, created, rerun, prev >>

\* Lines 136-167
Plan ==
    /\ pc = "plan"
    /\ use_parallel_determined' =
          PlanParallel(use_parallel, disk_speed, Cardinality(selected_columns))
    /\ IF use_parallel_determined'
       THEN \E cpu \in CpuCounts :
               cpu_count' = cpu /\ num_workers' = WorkerCount(cpu)
       ELSE UNCHANGED << cpu_count, num_workers >>
    /\ pc' = "read"
    /\ UNCHANGED << in_exists, out_exists, in_dir, selected_columns, time_interval,
                    use_parallel, out_files, error, error_msg, csv_files,
                    disk_speed, all_data, parsed_by, df_all, average_data,
                    grouped_stats, plot_df, cpu_load, created, rerun, prev >>

\* Lines 171-180: one turn of the loop, run by the process that runs the function
ReadFile ==
    /\ pc = "read"
    /\ Len(all_data) < Len(csv_files)
    /\ LET i == Len(all_data) + 1
       IN  all_data' = all_data \o << ReadFrame(csv_files[i], i, time_interval) >>
    /\ parsed_by' = parsed_by \o << MainProcess >>
    /\ UNCHANGED << cpu_count, in_exists, out_exists, in_dir,
                    selected_columns, time_interval, use_parallel, out_files,
                    pc, error, error_msg, csv_files, disk_speed,
                    use_parallel_determined, num_workers, df_all,
                    average_data, grouped_stats, plot_df, cpu_load, created,
                    rerun, prev >>

\* Lines 182-204
Merge ==
    /\ pc = "read"
    /\ Len(all_data) = Len(csv_files)
    /\ df_all' = Coerce(Concat(all_data))
    /\ pc' = "write_raw"
    /\ UNCHANGED << cpu_count, in_exists, out_exists, in_dir,
                    selected_columns, time_interval, use_parallel, out_files,
                    error, error_msg, csv_files, disk_speed,
                    use_parallel_determined, num_workers, all_data,
                    parsed_by, average_data, grouped_stats, plot_df,
                    cpu_load, created, rerun, prev >>

\* Lines 208-221: the raw file gets the merged rows and the separator; then
\* groupby("Frame")[selected_columns] raises KeyError, naming the columns it
\* did not find, or the means are computed and appended
WriteRaw ==
    /\ pc = "write_raw"
    /\ created' = created \cup {RawName}
    /\ LET opened == OpenForWrite(out_files, RawName)
           data == WriteBlock(opened, RawName,
                              Block("data", df_all.columns, df_all.rows))
           sep == WriteBlock(data, RawName,
                             Block("separator", df_all.columns,
                                   << [c \in df_all.columns |-> "NaN"] >>))
           missing == MissingCols(df_all, selected_columns)
           means == GroupMean(df_all, selected_columns)
       IN  IF missing # {}
           THEN /\ out_files' = sep
                /\ Raise("KeyError", missing)
                /\ UNCHANGED average_data
           ELSE /\ average_data' = means
                /\ out_files' = WriteBlock(sep, RawName,
                                           Block("averages", means.columns, means.rows))
                /\ pc' = "summarize"
                /\ UNCHANGED << error, error_msg >>
    /\ UNCHANGED << cpu_count, in_exists, out_exists, in_dir,
                    selected_columns, time_interval, use_parallel, csv_files,
                    disk_speed, use_parallel_determined, num_workers,
                    all_data, parsed_by, df_all, grouped_stats, plot_df,
                    cpu_load, rerun, prev >>

\* Lines 224-243. WriteRaw has already raised when a selected column is
\* missing, so the check of lines 224-226 finds none here.
Summarize ==
    /\ pc = "summarize"
    /\ LET missing == MissingCols(df_all, selected_columns)
           flat == Flatten(GroupAgg(df_all, selected_columns))
       IN  IF missing # {}
           THEN /\ Raise("ValueError", missing)
                /\ UNCHANGED << grouped_stats, out_files, created >>
           ELSE /\ grouped_stats' = flat
                /\ out_files' = WriteBlock(OpenForWrite(out_files, SummaryName),
                                           SummaryName,
                                           Block("statistics", flat.columns, flat.rows))
                /\ created' = created \cup {SummaryName}
                /\ pc' = "plot"
                /\ UNCHANGED << error, error_msg >>
    /\ UNCHANGED << cpu_count, in_exists, out_exists, in_dir,
                    selected_columns, time_interval, use_parallel, csv_files,
                    disk_speed, use_parallel_determined, num_workers,
                    all_data, parsed_by, df_all, average_data, plot_df,
                    cpu_load, rerun, prev >>

\* Lines 249-282 and 53-96: the load is sampled, the means are computed again
\* and handed to plot_lines_with_options, which saves the chart
Plot ==
    /\ pc = "plot"
    /\ \E load \in CpuLoads : cpu_load' = load
    /\ average_data' = GroupMean(df_all, selected_columns)
    /\ plot_df' = average_data'
    /\ out_files' = WriteBlock(OpenForWrite(out_files, ChartName), ChartName,
                               Block("chart", plot_df'.columns, plot_df'.rows))
    /\ created' = created \cup {ChartName}
    /\ pc' = "done"
    /\ UNCHANGED << cpu_count, in_exists, out_exists, in_dir,
                    selected_columns, time_interval, use_parallel, error,
                    error_msg, csv_files, disk_speed,
                    use_parallel_determined, num_workers, all_data,
                    parsed_by, df_all, grouped_stats, rerun, prev >>

ArtifactOf(name) == IF name \in DOMAIN out_files THEN out_files[name] ELSE << >>

\* The caller runs reindex_and_analyze again with the same folders, columns,
\* interval and timestamp
Rerun ==
    /\ pc \in {"done", "failed"}
    /\ ~rerun
    /\ rerun' = TRUE
    /\ prev' = [ended |-> IF pc = "done" THEN "done" ELSE error,
                raw |-> ArtifactOf(RawName),
                summary |-> ArtifactOf(SummaryName),
                use_parallel |-> use_parallel,
                disk_speed |-> disk_speed,
                parallel |-> use_parallel_determined]
    /\ pc' = "call"
    /\ error' = "none"
    /\ error_msg' = {}
    /\ csv_files' = << >>
    /\ disk_speed' = 0
    /\ use_parallel_determined' = FALSE
    /\ cpu_count' = 0
    /\ num_workers' = 0
    /\ all_data' = << >>
    /\ parsed_by' = << >>
    /\ df_all' = NoFrame
    /\ average_data' = NoFrame
    /\ grouped_stats' = NoFrame
    /\ plot_df' = NoFrame
    /\ cpu_load' = 0
    /\ created' = {}
    /\ UNCHANGED << in_exists, out_exists, in_dir, selected_columns, time_interval,
                    use_parallel, out_files >>

Next ==
    \/ Call
    \/ Discover
    \/ BenchOpen
    \/ BenchWriteRaises
    \/ BenchReturn
    \/ Plan
    \/ ReadFile
    \/ Merge
    \/ WriteRaw
    \/ Summarize
    \/ Plot
    \/ Rerun

Spec == Init /\ [][Next]_vars


----------------------------------------------------------------------------
(* Properties *)

Merged == df_all # NoFrame
Planned ==
    \/ pc \in {"read", "write_raw", "summarize", "plot", "done"}
    \/ pc = "failed" /\ error \in {"KeyError", "ValueError"}
Summarized == pc \in {"plot", "done"}
MatchedFiles == { f \in in_dir : Matches(f.name) }
FrameSet == { df_all.rows[k].Frame : k \in DOMAIN df_all.rows }
RowsOfFrame(i) == { k \in DOMAIN df_all.rows : df_all.rows[k].Frame = i }

\* csv_files holds every matching file once, in increasing order of name
FilesSorted ==
    /\ Len(csv_files) = Cardinality(MatchedFiles)
    /\ \A i \in DOMAIN csv_files : csv_files[i] \in MatchedFiles
    /\ \A i, j \in DOMAIN csv_files :
          i < j => NameLess(csv_files[i].name, csv_files[j].name)

\* Every merged row carries the position of its file and the time of that position
RowsCarryPosition ==
    /\ \A k \in DOMAIN df_all.rows :
          \E i \in DOMAIN csv_files :
              /\ csv_files[i].name = df_all.rows[k].SourceFile
              /\ df_all.rows[k].Frame = i
              /\ df_all.rows[k].TimeSec = (i - 1) * time_interval
    /\ \A i \in DOMAIN csv_files :
          Cardinality(RowsOfFrame(i)) = Len(csv_files[i].table.rows)

\* C1 as stated: after the merge the files were taken in lexicographic order,
\* the rows of the file at position i carry Frame = i and
\* TimeSec = (i-1) * interval, and the Frame values of the merged rows are
\* exactly 1..N, N the number of matched files.
C1_FramesAreOneToN ==
    Merged => /\ FilesSorted
              /\ RowsCarryPosition
              /\ FrameSet = 1..Len(csv_files)

\* C1 amended: after the merge the files were taken in lexicographic order,
\* the rows of the file at position i carry Frame = i and
\* TimeSec = (i-1) * interval, and the Frame values of the merged rows are
\* exactly the positions in 1..N of the files that have at least one row.
C1_FramesFollowSortedOrder ==
    Merged => /\ FilesSorted
              /\ RowsCarryPosition
              /\ FrameSet = { i \in 1..Len(csv_files) : csv_files[i].table.rows # << >> }

C1_Witness ==
    /\ Merged
    /\ Len(csv_files) = 2
    /\ csv_files[1].name.stem = << 1, 0 >>
    /\ csv_files[2].name.stem = << 1 >>
    /\ time_interval > 0
    /\ FrameSet = {1, 2}

\* C2: once the plan is made it is parallel exactly when the caller opted in,
\* the throughput is at least 50 MB/s and more than 2 columns are selected;
\* a parallel plan has min(cpu_count, 8) workers, at least one.
C2_PlanIsOptInAndThresholds ==
    Planned =>
        /\ use_parallel_determined <=>
              (/\ use_parallel
               /\ disk_speed >= SpeedThreshold
               /\ Cardinality(selected_columns) > MinColumns)
        /\ use_parallel_determined =>
              /\ num_workers = (IF cpu_count < MaxWorkers THEN cpu_count ELSE MaxWorkers)
              /\ num_workers >= 1

C2_Witness ==
    /\ Planned
    /\ use_parallel_determined
    /\ cpu_count > MaxWorkers
    /\ num_workers = MaxWorkers

\* C3: a run that ends with a selected column absent from the merged frame
\* ends with ValueError, whose message lists every absent selected column.
C3_MissingColumnRaisesValueError ==
    (pc \in {"done", "failed"} /\ Merged /\ MissingCols(df_all, selected_columns) # {})
        => /\ pc = "failed"
           /\ error = "ValueError"
           /\ error_msg = MissingCols(df_all, selected_columns)

\* C4: once test_disk_write_speed has been left, by return or by exception,
\* the scratch file is not in the output folder.
C4_ScratchFileRemoved ==
    (ScratchName \in created /\ pc # "bench_write")
        => ScratchName \notin DOMAIN out_files

AveragesBlock == out_files[RawName][3]
OneRowPerFrame(rows) ==
    /\ { rows[k].Frame : k \in DOMAIN rows } = FrameSet
    /\ Len(rows) = Cardinality(FrameSet)
MeansMatch(rows) ==
    /\ Len(rows) = Len(grouped_stats.rows)
    /\ \A k \in DOMAIN rows :
          /\ rows[k].Frame = grouped_stats.rows[k].Frame
          /\ \A c \in selected_columns :
                rows[k].vals[c] = grouped_stats.rows[k].vals[FlatName(c, "mean")]

\* C5: once the statistics are written, the mean-only table appended to the
\* raw file agrees, Frame by Frame and field by field, with the {field}_mean
\* column of the flattened statistics, and so does the table handed to the
\* chart once it is drawn; each table has one row per Frame of the merged rows.
C5_MeansAgreeWithStatistics ==
    Summarized =>
        /\ Len(out_files[RawName]) = 3
        /\ AveragesBlock.section = "averages"
        /\ OneRowPerFrame(grouped_stats.rows)
        /\ OneRowPerFrame(AveragesBlock.rows)
        /\ MeansMatch(AveragesBlock.rows)
        /\ pc = "done" => /\ OneRowPerFrame(plot_df.rows)
                          /\ MeansMatch(plot_df.rows)

C5_Witness ==
    /\ pc = "done"
    /\ Len(plot_df.rows) = 2
    /\ \E k \in DOMAIN plot_df.rows : \E c \in selected_columns :
          plot_df.rows[k].vals[c] = NaN
    /\ \E k \in DOMAIN plot_df.rows : \E c \in selected_columns :
          plot_df.rows[k].vals[c].kind = "rat" /\ plot_df.rows[k].vals[c].den > 1

\* The rows of a Frame that contribute a value for a field
Contributing(frame, c) ==
    { k \in RowsOfFrame(frame) : df_all.rows[k].cells[c] # NULL }
Defined(v) == v.kind = "sqrt" /\ v.num >= 0 /\ v.den > 0

\* C6: in the flattened statistics the standard deviation and the standard
\* error of a Frame and field are NaN exactly when fewer than 2 rows of the
\* Frame contribute a value, otherwise they are roots of non-negative numbers;
\* the count is the number of contributing rows, at most the rows of the Frame.
C6_StdSemUndefinedBelowTwo ==
    Summarized =>
        \A k \in DOMAIN grouped_stats.rows : \A c \in selected_columns :
            LET row == grouped_stats.rows[k]
                n == Cardinality(Contributing(row.Frame, c))
                std == row.vals[FlatName(c, "std")]
                sem == row.vals[FlatName(c, "sem")]
                count == row.vals[FlatName(c, "count")]
            IN  /\ (std = NaN) <=> (n < 2)
                /\ (sem = NaN) <=> (n < 2)
                /\ n >= 2 => Defined(std) /\ Defined(sem)
                /\ count = Rat(n, 1)
                /\ count.num <= Cardinality(RowsOfFrame(row.Frame))

C6_Witness ==
    /\ pc = "done"
    /\ \E k \in DOMAIN grouped_stats.rows : \E c, d \in selected_columns :
          LET row == grouped_stats.rows[k]
          IN  /\ row.vals[FlatName(c, "std")].kind = "sqrt"
              /\ row.vals[FlatName(c, "std")].num > 0
              /\ row.vals[FlatName(d, "std")] = NaN
              /\ row.vals[FlatName(d, "count")].num = 1
              /\ Cardinality(RowsOfFrame(row.Frame)) = 2

\* C7: a run with an interval <= 0 reads no file, writes no raw file and
\* does not complete.
C7_NonPositiveIntervalRejected ==
    time_interval <= 0 => /\ all_data = << >>
                          /\ RawName \notin created
                          /\ pc # "done"

\* C8: when the first and the second run both complete, the second run leaves
\* the raw file and the summary file with the contents the first run left,
\* whatever throughput, CPU count, CPU load and opt-in each run saw.
C8_RerunReproducesArtifacts ==
    (rerun /\ pc = "done" /\ prev.ended = "done")
        => /\ {RawName, SummaryName} \subseteq DOMAIN out_files
           /\ out_files[RawName] = prev.raw
           /\ out_files[SummaryName] = prev.summary

C8_Witness ==
    /\ rerun
    /\ pc = "done"
    /\ prev.ended = "done"
    /\ prev.disk_speed # disk_speed
    /\ prev.use_parallel # use_parallel
    /\ prev.parallel /\ ~use_parallel_determined
    /\ Len(df_all.rows) >= 3

\* C9: under a parallel plan every file is parsed by a worker process, not by
\* the process running reindex_and_analyze, and the merged rows are in Frame
\* order.
C9_ParallelPlanParsesInWorkers ==
    (use_parallel_determined /\ Merged)
        => /\ \A k \in DOMAIN parsed_by : parsed_by[k] # MainProcess
           /\ \A j, k \in DOMAIN df_all.rows :
                 j < k => df_all.rows[j].Frame <= df_all.rows[k].Frame

\* C10: a run that ends with FileNotFoundError, or with the error for a
\* missing selected column, has opened neither the raw file nor the summary
\* file; one that ends with FileNotFoundError has not opened the scratch file
\* and has read no input file.
C10_NoArtifactOnInputError ==
    (pc = "failed" /\ error \in {"FileNotFoundError", "KeyError", "ValueError"})
        => /\ RawName \notin created
           /\ SummaryName \notin created
           /\ error = "FileNotFoundError" =>
                 ScratchName \notin created /\ all_data = << >>

====
